---------------------------- MODULE Spec2Model ----------------------------
(***************************************************************************)
(* utm_tracker: the LeadSource table, LeadSourceManager's                  *)
(* create_from_utm_params, the cascade of a user's deletion and migration  *)
(* 0004_leadsource_session_key.                                            *)
(*                                                                         *)
(* A call of create_from_utm_params is a request's sequence of steps       *)
(*   idle -> kwargs -> init -> save -> done        (a row is returned)     *)
(*           kwargs -> except -> done              (a key is missing)      *)
(*                     save -> except -> done      (the INSERT fails)      *)
(* so that calls of different requests, deletions of users, the migration  *)
(* and the passing of time interleave between them.  The INSERT itself is  *)
(* one step: the database runs it atomically.                              *)
(***************************************************************************)
EXTENDS Integers, Sequences, FiniteSets, TLC

VARIABLES
    users,      \* the rows of the AUTH_USER_MODEL table (their keys)
    columns,    \* the columns of the utm_tracker_leadsource table
    table,      \* the rows of the utm_tracker_leadsource table
    nextId,     \* the table's AUTOINCREMENT / serial sequence
    clock,      \* timezone.now()
    pc,         \* per request: where its call stands
    call,       \* per request: the call's arguments (user, session, utm_params)
    started,    \* per request: the clock when the call began
    instance,   \* per request: the keyword arguments, then the LeadSource instance
    exc,        \* per request: the exception in flight
    result,     \* per request: what the call returned or raised
    finished    \* per request: the clock when the call ended

vars == <<users, columns, table, nextId, clock, pc, call, started, instance,
          exc, result, finished>>

-----------------------------------------------------------------------------
(* Bounds and input sets *)

MaxClock == 2

Users == {"u1", "u2"}

\* Python's None, as session.session_key returns it for a session never saved.
None == "None"

SessionKeys == {None, "", "s1"}

UtmKeys == {"utm_medium", "utm_source", "utm_campaign", "utm_term", "utm_content"}

FullParams ==
    [utm_medium |-> "cpc", utm_source |-> "google", utm_campaign |-> "spring",
     utm_term |-> "shoes", utm_content |-> "banner"]

\* 31 characters: one more than medium's max_length.
LongMedium == "mmmmmmmmmmmmmmmmmmmmmmmmmmmmmmm"

Restrict(d, K) == [k \in K |-> d[k]]

\* Every subset of the five keys present, and the required keys present with an
\* empty or an over-long value.
UtmParamsDicts ==
    {Restrict(FullParams, K) : K \in SUBSET UtmKeys}
      \cup {[FullParams EXCEPT !.utm_medium = ""],
            [FullParams EXCEPT !.utm_source = ""],
            [FullParams EXCEPT !.utm_medium = LongMedium]}

\* The smaller input set of the concurrent specification.
ConcParamsDicts ==
    {Restrict(FullParams, {"utm_medium", "utm_source"}),
     Restrict(FullParams, {"utm_source", "utm_campaign"}),
     [FullParams EXCEPT !.utm_term = ""]}

-----------------------------------------------------------------------------
(* The LeadSource model: its fields and their declarations *)

MaxLenMedium == 30
MaxLenSource == 30
MaxLenCampaign == 100
MaxLenTerm == 50
MaxLenContent == 50
MaxLenSessionKey == 40

CharFields == {"medium", "source", "campaign", "term", "content", "session_key"}

MaxLength(f) ==
    CASE f = "medium" -> MaxLenMedium
      [] f = "source" -> MaxLenSource
      [] f = "campaign" -> MaxLenCampaign
      [] f = "term" -> MaxLenTerm
      [] f = "content" -> MaxLenContent
      [] f = "session_key" -> MaxLenSessionKey

\* The model's fields, the implicit id first: the columns its INSERT names.
ModelFields ==
    {"id", "user_id", "medium", "source", "campaign", "term", "content",
     "timestamp", "session_key", "created_at"}

\* default=timezone.now: the callable is evaluated when an instance is built.
\* Variant: a default that runs ahead of timezone.now().
TimestampDefaultSkewed == clock + 1
TimestampDefault == clock

-----------------------------------------------------------------------------
(* create_from_utm_params: the keyword arguments *)

\* utm_params.get(k, default)
Get(d, k, default) == IF k \in DOMAIN d THEN d[k] ELSE default

\* The subscripted keys, in the order the keyword arguments are evaluated.
\* Variant: utm_source subscripted before utm_medium.
RequiredKeysReversed == <<"utm_source", "utm_medium">>
RequiredKeys == <<"utm_medium", "utm_source">>

\* The first utm_params[k] that raises KeyError(k), as an index of RequiredKeys
\* (0: none raises).
FirstMissing(d) ==
    LET missing == {i \in 1..Len(RequiredKeys) : RequiredKeys[i] \notin DOMAIN d}
    IN  IF missing = {} THEN 0
        ELSE CHOOSE i \in missing : \A j \in missing : i <= j

\* Variant: medium and source taken from each other's key.
KwargsSwapped(c) ==
    [user_id     |-> c.user,
     session_key |-> c.session_key,
     medium      |-> c.utm_params["utm_source"],
     source      |-> c.utm_params["utm_medium"],
     campaign    |-> Get(c.utm_params, "utm_campaign", ""),
     term        |-> Get(c.utm_params, "utm_term", ""),
     content     |-> Get(c.utm_params, "utm_content", "")]
\* The keyword arguments of LeadSource.objects.create, once none has raised.
Kwargs(c) ==
    [user_id     |-> c.user,
     session_key |-> c.session_key,
     medium      |-> c.utm_params["utm_medium"],
     source      |-> c.utm_params["utm_source"],
     campaign    |-> Get(c.utm_params, "utm_campaign", ""),
     term        |-> Get(c.utm_params, "utm_term", ""),
     content     |-> Get(c.utm_params, "utm_content", "")]

\* An exception: its type, its argument and where it was raised (its traceback).
Exception(type, arg, tb) == [type |-> type, arg |-> arg, tb |-> tb]

\* str(KeyError(k)) is repr(k).
Repr(k) == "'" \o k \o "'"

\* except KeyError as ex: raise ValueError(f"Missing utm param: {ex}"); any other
\* exception passes through the try statement.
Reraise(e) ==
    IF e.type = "KeyError"
    THEN Exception("ValueError", "Missing utm param: " \o Repr(e.arg), "except")
    ELSE e

-----------------------------------------------------------------------------
(* The database *)

\* What the INSERT raises whatever the row: the database is unavailable, or a
\* pre_save receiver fails with a key lookup of its own.
StoreFaults ==
    {Exception("OperationalError", "database is locked", "save"),
     Exception("KeyError", "tenant", "save")}

\* The errors the INSERT of `inst` must end in: the statement names a column of
\* the model the table does not have yet; or else a CharField is None (none is
\* declared null=True, so each column is NOT NULL) or user_id has no user.
ConstraintErrors(inst) ==
    IF ModelFields \subseteq columns
    THEN {Exception("IntegrityError", "NOT NULL constraint failed: " \o f, "save") :
            f \in {g \in CharFields : inst[g] = None}}
           \cup {Exception("IntegrityError", "FOREIGN KEY constraint failed", "save") :
                   u \in {inst.user_id} \ users}
    ELSE {Exception("OperationalError", "no column named " \o f, "save") :
            f \in ModelFields \ columns}

\* The error a backend that enforces varchar(n) raises; one that does not
\* (SQLite) stores the value.
LengthErrors(inst) ==
    {Exception("DataError", "value too long for " \o f, "save") :
        f \in {g \in CharFields : Len(inst[g]) > MaxLength(g)}}

\* The row the INSERT writes, with the id the sequence assigns.
Row(inst, id) == [c \in ModelFields |-> IF c = "id" THEN id ELSE inst[c]]

\* Variant: a sequence that does not advance.
NextIdStuck(id) == id
\* The sequence after it has assigned `id`.
NextIdAfter(id) == id + 1

\* Variant: the column is added without its default.
AddFieldNull(rows, name, default) ==
    {[c \in DOMAIN row \cup {name} |-> IF c = name THEN None ELSE row[c]] :
        row \in rows}
\* migrations.AddField: the column is added and every row gets the default in it.
AddField(rows, name, default) ==
    {[c \in DOMAIN row \cup {name} |-> IF c = name THEN default ELSE row[c]] :
        row \in rows}

\* Variant: a delete that does not cascade.
CascadeNone(rows, u) == rows
\* on_delete=models.CASCADE: the rows that reference user u go with it.
Cascade(rows, u) == {row \in rows : row.user_id # u}

-----------------------------------------------------------------------------
(* The initial state *)

NoCall == [user |-> "", session_key |-> "", utm_params |-> Restrict(FullParams, {})]
NoInstance == [user_id |-> ""]
NoException == Exception("", "", "")
NoResult == [kind |-> "none", obj |-> NoInstance, exc |-> NoException]

\* The columns before migration 0004: the model's but session_key.
LegacyColumns == ModelFields \ {"session_key"}

\* Rows written before migration 0004, one per user.
LegacyRows ==
    {[id |-> 1, user_id |-> "u1", medium |-> "email", source |-> "newsletter",
      campaign |-> "", term |-> "", content |-> "", timestamp |-> 0, created_at |-> 0],
     [id |-> 2, user_id |-> "u2", medium |-> "referral", source |-> "internal",
      campaign |-> "profile", term |-> "token", content |-> "book me",
      timestamp |-> 0, created_at |-> 0]}

\* Requests R, all idle, over a table that holds `rows` and lacks session_key.
InitFor(R, rows) ==
    /\ users = Users
    /\ columns = LegacyColumns
    /\ table = rows
    /\ nextId = Cardinality(LegacyRows) + 1
    /\ clock = 0
    /\ pc = [r \in R |-> "idle"]
    /\ call = [r \in R |-> NoCall]
    /\ started = [r \in R |-> 0]
    /\ instance = [r \in R |-> NoInstance]
    /\ exc = [r \in R |-> NoException]
    /\ result = [r \in R |-> NoResult]
    /\ finished = [r \in R |-> 0]

-----------------------------------------------------------------------------
(* create_from_utm_params *)

\* A request calls create_from_utm_params(user, session, utm_params) with a user
\* it has loaded.
Call(r, U, S, D) ==
    /\ pc[r] = "idle"
    /\ \E u \in U \cap users, s \in S, d \in D :
          call' = [call EXCEPT ![r] = [user |-> u, session_key |-> s, utm_params |-> d]]
    /\ started' = [started EXCEPT ![r] = clock]
    /\ pc' = [pc EXCEPT ![r] = "kwargs"]
    /\ UNCHANGED <<users, columns, table, nextId, clock, instance, exc, result, finished>>

\* The keyword arguments are evaluated in order; the first missing required key
\* raises KeyError inside the try statement.
EvalKwargs(r) ==
    /\ pc[r] = "kwargs"
    /\ LET i == FirstMissing(call[r].utm_params)
       IN  IF i = 0
           THEN /\ instance' = [instance EXCEPT ![r] = Kwargs(call[r])]
                /\ pc' = [pc EXCEPT ![r] = "init"]
                /\ exc' = exc
           ELSE /\ exc' = [exc EXCEPT ![r] = Exception("KeyError", RequiredKeys[i], "kwargs")]
                /\ pc' = [pc EXCEPT ![r] = "except"]
                /\ instance' = instance
    /\ UNCHANGED <<users, columns, table, nextId, clock, call, started, result, finished>>

\* objects.create builds the instance: the fields without a keyword argument get
\* their defaults, timestamp and then created_at, each its own timezone.now()
\* (time may pass between the two).
Instantiate(r) ==
    /\ pc[r] = "init"
    /\ \E dt \in {0, 1} :
          /\ clock + dt <= MaxClock
          /\ clock' = clock + dt
          /\ instance' = [instance EXCEPT ![r] =
                 [f \in ModelFields |->
                    CASE f = "id" -> 0
                      [] f = "timestamp" -> TimestampDefault
                      [] f = "created_at" -> TimestampDefault + dt
                      [] OTHER -> instance[r][f]]]
    /\ pc' = [pc EXCEPT ![r] = "save"]
    /\ UNCHANGED <<users, columns, table, nextId, call, started, exc, result, finished>>

\* The INSERT succeeds: the row is written with the next id, and create returns
\* the instance with that id.
SaveOk(r) ==
    /\ pc[r] = "save"
    /\ ConstraintErrors(instance[r]) = {}
    /\ LET row == Row(instance[r], nextId)
       IN  /\ table' = table \cup {row}
           /\ result' = [result EXCEPT ![r] = [kind |-> "returned", obj |-> row,
                                               exc |-> NoException]]
    /\ nextId' = NextIdAfter(nextId)
    /\ finished' = [finished EXCEPT ![r] = clock]
    /\ pc' = [pc EXCEPT ![r] = "done"]
    /\ UNCHANGED <<users, columns, clock, call, started, instance, exc>>

\* Variant: the row is written before the error is raised.
SaveFailsAfterWrite(r) ==
    /\ pc[r] = "save"
    /\ \E e \in StoreFaults \cup ConstraintErrors(instance[r]) \cup LengthErrors(instance[r]) :
          exc' = [exc EXCEPT ![r] = e]
    /\ table' = table \cup {Row(instance[r], nextId)}
    /\ pc' = [pc EXCEPT ![r] = "except"]
    /\ UNCHANGED <<users, columns, nextId, clock, call, started, instance, result, finished>>
\* The INSERT fails: nothing is written, and the error is raised inside the try
\* statement.
SaveFails(r) ==
    /\ pc[r] = "save"
    /\ \E e \in StoreFaults \cup ConstraintErrors(instance[r]) \cup LengthErrors(instance[r]) :
          exc' = [exc EXCEPT ![r] = e]
    /\ pc' = [pc EXCEPT ![r] = "except"]
    /\ UNCHANGED <<users, columns, table, nextId, clock, call, started, instance, result,
                   finished>>

\* The try statement's handler, and the call ends raising.
Except(r) ==
    /\ pc[r] = "except"
    /\ result' = [result EXCEPT ![r] = [kind |-> "raised", obj |-> NoInstance,
                                        exc |-> Reraise(exc[r])]]
    /\ finished' = [finished EXCEPT ![r] = clock]
    /\ pc' = [pc EXCEPT ![r] = "done"]
    /\ UNCHANGED <<users, columns, table, nextId, clock, call, started, instance, exc>>

-----------------------------------------------------------------------------
(* The environment *)

\* A user is deleted, and the delete cascades.
DeleteUser(u) ==
    /\ u \in users
    /\ users' = users \ {u}
    /\ table' = Cascade(table, u)
    /\ UNCHANGED <<columns, nextId, clock, pc, call, started, instance, exc, result, finished>>

\* Migration 0004_leadsource_session_key is applied.
Migrate0004 ==
    /\ "session_key" \notin columns
    /\ columns' = columns \cup {"session_key"}
    /\ table' = AddField(table, "session_key", "")
    /\ UNCHANGED <<users, nextId, clock, pc, call, started, instance, exc, result, finished>>

\* Time passes.
Tick ==
    /\ clock < MaxClock
    /\ clock' = clock + 1
    /\ UNCHANGED <<users, columns, table, nextId, pc, call, started, instance, exc, result,
                   finished>>

-----------------------------------------------------------------------------
(* Specifications *)

\* One request, with every input.
Requests == {"r1"}

Init == \E rows \in SUBSET LegacyRows : InitFor(Requests, rows)

Next ==
    \/ \E r \in Requests : Call(r, Users, SessionKeys, UtmParamsDicts)
    \/ \E r \in Requests : EvalKwargs(r)
    \/ \E r \in Requests : Instantiate(r)
    \/ \E r \in Requests : SaveOk(r)
    \/ \E r \in Requests : SaveFails(r)
    \/ \E r \in Requests : Except(r)
    \/ \E u \in Users : DeleteUser(u)
    \/ Migrate0004
    \/ Tick

Spec == Init /\ [][Next]_vars

\* Two concurrent requests, for different users, with fewer inputs.
ConcRequests == {"r1", "r2"}

ConcUser(r) == IF r = "r1" THEN "u1" ELSE "u2"

\* Each request has a session of its own.
ConcSessionKey(r) == IF r = "r1" THEN "s1" ELSE "s2"

ConcInit == InitFor(ConcRequests, LegacyRows)

ConcNext ==
    \/ \E r \in ConcRequests : Call(r, {ConcUser(r)}, {ConcSessionKey(r)}, ConcParamsDicts)
    \/ \E r \in ConcRequests : EvalKwargs(r)
    \/ \E r \in ConcRequests : Instantiate(r)
    \/ \E r \in ConcRequests : SaveOk(r)
    \/ \E r \in ConcRequests : SaveFails(r)
    \/ \E r \in ConcRequests : Except(r)
    \/ \E u \in Users : DeleteUser(u)
    \/ Migrate0004
    \/ Tick

SpecConc == ConcInit /\ [][ConcNext]_vars

-----------------------------------------------------------------------------
(* Properties *)

Returned(r) == pc[r] = "done" /\ result[r].kind = "returned"

Raised(r) == pc[r] = "done" /\ result[r].kind = "raised"

\* The step in which request r's call returns.
Returns(r) == pc[r] # "done" /\ pc'[r] = "done" /\ result'[r].kind = "returned"

\* C1: a call whose utm_params lacks utm_medium raises ValueError naming
\* utm_medium, and one that lacks only utm_source raises ValueError naming
\* utm_source: never the KeyError of the lookup itself.
C1_MissingParamNamed ==
    \A r \in DOMAIN pc :
        pc[r] = "done" =>
            LET d == call[r].utm_params
                missing == IF "utm_medium" \notin DOMAIN d THEN "utm_medium"
                           ELSE IF "utm_source" \notin DOMAIN d THEN "utm_source"
                           ELSE ""
            IN  missing # "" =>
                    /\ result[r].kind = "raised"
                    /\ result[r].exc.type = "ValueError"
                    /\ result[r].exc.arg = "Missing utm param: '" \o missing \o "'"

\* A call without either required key has ended.
C1_Witness ==
    \E r \in DOMAIN pc :
        /\ Raised(r)
        /\ DOMAIN call[r].utm_params = {"utm_campaign"}
        /\ result[r].exc.arg = "Missing utm param: 'utm_medium'"

\* C2: every row of the table has a non-empty medium and a non-empty source.
C2_RequiredNonEmpty ==
    \A row \in table : row.medium # "" /\ row.source # ""

\* C3: a step of a call that is not its successful INSERT leaves the table as
\* it was: a call that fails has written nothing.
C3_AllOrNothing ==
    [][\A r \in DOMAIN pc :
          (pc'[r] # pc[r] /\ ~Returns(r)) => table' = table]_vars

\* A call has failed in the INSERT, over a table that holds rows.
C3_Witness ==
    \E r \in DOMAIN pc :
        /\ Raised(r)
        /\ exc[r].tb = "save"
        /\ table # {}

\* C4: the step in which a call returns adds exactly the returned row to the
\* table, under an id no row had; the row has the call's user, medium and
\* source are utm_params' utm_medium and utm_source, and campaign, term and
\* content are utm_campaign, utm_term and utm_content where present, else "".
C4_CreatesOneRow ==
    [][\A r \in DOMAIN pc :
          Returns(r) =>
            LET o == result'[r].obj
                d == call[r].utm_params
                opt(k) == IF k \in DOMAIN d THEN d[k] ELSE ""
            IN  /\ table' = table \cup {o}
                /\ \A row \in table : row.id # o.id
                /\ o.user_id = call[r].user
                /\ {"utm_medium", "utm_source"} \subseteq DOMAIN d
                /\ o.medium = d["utm_medium"]
                /\ o.source = d["utm_source"]
                /\ o.campaign = opt("utm_campaign")
                /\ o.term = opt("utm_term")
                /\ o.content = opt("utm_content")]_vars

\* A call with utm_term and without utm_campaign and utm_content has returned.
C4_Witness ==
    \E r \in DOMAIN pc :
        /\ Returned(r)
        /\ DOMAIN call[r].utm_params = {"utm_medium", "utm_source", "utm_term"}
        /\ result[r].obj \in table

\* What the INSERT raises for a session whose session_key is None.
NullSessionKeyError ==
    Exception("IntegrityError", "NOT NULL constraint failed: session_key", "save")

\* C5: a call with both required keys does not fail for its session's key, be it
\* a string, empty or None, and the row it returns has that key as its
\* session_key, "" for None.
C5_SessionKeyCopied ==
    \A r \in DOMAIN pc :
        (pc[r] = "done" /\ {"utm_medium", "utm_source"} \subseteq DOMAIN call[r].utm_params) =>
            /\ ~(result[r].kind = "raised" /\ exc[r] = NullSessionKeyError)
            /\ (result[r].kind = "returned") =>
                  (result[r].obj.session_key =
                      IF call[r].session_key = None THEN "" ELSE call[r].session_key)

\* C6: an error the INSERT raised is the error the call raises.
C6_StoreErrorPropagates ==
    \A r \in DOMAIN pc :
        (Raised(r) /\ exc[r].tb = "save") => result[r].exc = exc[r]

\* C7: no two rows share an id, no two calls return the same id, and a row a
\* call returned has that call's user, session key and parameters, in the
\* returned instance and in the table for as long as the row is there.
C7_ConcurrentCallsIndependent ==
    /\ \A a, b \in table : a.id = b.id => a = b
    /\ \A r \in DOMAIN pc :
          Returned(r) =>
            LET o == result[r].obj
                d == call[r].utm_params
                opt(k) == IF k \in DOMAIN d THEN d[k] ELSE ""
            IN  /\ \A q \in DOMAIN pc \ {r} : Returned(q) => result[q].obj.id # o.id
                /\ \A row \in table : row.id = o.id => row = o
                /\ o.user_id = call[r].user
                /\ o.session_key = call[r].session_key
                /\ o.medium = d["utm_medium"]
                /\ o.source = d["utm_source"]
                /\ o.campaign = opt("utm_campaign")
                /\ o.term = opt("utm_term")
                /\ o.content = opt("utm_content")

\* Two calls have returned and both rows are in the table.
C7_Witness ==
    /\ \A r \in {"r1", "r2"} : r \in DOMAIN pc /\ Returned(r) /\ result[r].obj \in table
    /\ result["r1"].obj.user_id # result["r2"].obj.user_id

\* Every row references a user that exists.
ReferentialIntegrity == \A row \in table : row.user_id \in users

\* A step that deletes a user removes the rows that reference it and no
\* others; any other step, the migration apart, keeps every row as it is.
CascadeStep ==
    /\ (users' # users) => (table' = {row \in table : row.user_id \in users'})
    /\ (users' = users /\ columns' = columns) => (table \subseteq table')

\* C8: every row references a user that exists; a step that deletes a user
\* removes the rows that reference it and no others; and any other step, the
\* migration apart, keeps every row as it is.
C8_CascadeOnUserDelete == []ReferentialIntegrity /\ [][CascadeStep]_vars

\* A user who had two rows is gone with them, and the other user's rows are there.
C8_Witness ==
    /\ "u1" \notin users
    /\ "r1" \in DOMAIN pc /\ Returned("r1") /\ call["r1"].user = "u1"
    /\ \E row \in table : row.user_id = "u2" /\ row.id > Cardinality(LegacyRows)
    /\ \E row \in table : row.user_id = "u2" /\ row.id <= Cardinality(LegacyRows)

\* C9: the step that adds the session_key column keeps every row, with
\* session_key "" and its other columns as they were, and adds no row.
C9_MigrationBackfill ==
    [][columns' # columns =>
          /\ Cardinality(table') = Cardinality(table)
          /\ \A row \in table :
                \E new \in table' :
                    /\ DOMAIN new = DOMAIN row \cup {"session_key"}
                    /\ new.session_key = ""
                    /\ \A c \in DOMAIN row : new[c] = row[c]]_vars

\* The migration has been applied to a table of two rows.
C9_Witness ==
    /\ "session_key" \in columns
    /\ nextId = Cardinality(LegacyRows) + 1
    /\ Cardinality(table) = Cardinality(LegacyRows)
    /\ \A row \in table : row.session_key = ""

\* C10: the timestamp and the created_at of a returned row lie between the
\* clock at the call's start and the clock at its end.
C10_TimestampsWithinCall ==
    \A r \in DOMAIN pc :
        Returned(r) =>
            /\ started[r] <= result[r].obj.timestamp
            /\ result[r].obj.timestamp <= finished[r]
            /\ started[r] <= result[r].obj.created_at
            /\ result[r].obj.created_at <= finished[r]

\* A call has returned a row whose two times differ, after time had passed
\* since its start.
C10_Witness ==
    \E r \in DOMAIN pc :
        /\ Returned(r)
        /\ started[r] < result[r].obj.timestamp
        /\ result[r].obj.timestamp < result[r].obj.created_at

=============================================================================
